---- MODULE Spec2Model ----
(***************************************************************************)
(* Model of the signer-service: the manual AWS Signature V4 presigner      *)
(* (AWSSigner, src/internal/handler/handler.go lines 157-374) together     *)
(* with the wall clock it samples.                                         *)
(*                                                                         *)
(* A Go string is modelled as what it is, a sequence of bytes (0..255);    *)
(* `for _, r := range s` is modelled by UTF-8 decoding of that sequence.   *)
(* SHA-256 and HMAC-SHA256 are modelled as collision-free symbolic terms   *)
(* (records naming their inputs); the 64 hex characters of a digest that   *)
(* is written into a string are modelled by the single mark HexMark, the   *)
(* digest itself being carried beside the text.                            *)
(***************************************************************************)
EXTENDS Integers, Sequences, FiniteSets, TLC

VARIABLES clock, signer, calls, fn, main, reqs

vars == <<clock, signer, calls, fn, main, reqs>>

(***************************************************************************)
(* Bounds of the model.                                                    *)
(***************************************************************************)
\* ticks of one second the clock may advance
MaxTicks == 1
\* entries of a metadata mapping, pure-function specification
MaxMeta == 2
\* code points of an input of uriEncode
MaxLen == 3
\* entries of a parameter map handed to the query-string builders
MaxParams == 2
\* bytes of a metadata value handed to the value normalisation
MaxValLen == 6
\* map iteration orders tried by each `range` over a map (see MapRange)
MaxSeed == 1

(***************************************************************************)
(* String literals of the source, as bytes.                                *)
(***************************************************************************)
sHost == <<104, 111, 115, 116>>  \* "host"
sMetaPrefix == <<120, 45, 97, 109, 122, 45, 109, 101, 116, 97, 45>>  \* "x-amz-meta-"
sS3Dot == <<46, 115, 51, 46>>  \* ".s3."
sAmazonaws == <<46, 97, 109, 97, 122, 111, 110, 97, 119, 115, 46, 99, 111, 109>>  \* ".amazonaws.com"
sAlgorithm == <<65, 87, 83, 52, 45, 72, 77, 65, 67, 45, 83, 72, 65, 50, 53, 54>>  \* "AWS4-HMAC-SHA256"
sAws4Request == <<97, 119, 115, 52, 95, 114, 101, 113, 117, 101, 115, 116>>  \* "aws4_request"
sAWS4 == <<65, 87, 83, 52>>  \* "AWS4"
sXAmzAlgorithm == <<88, 45, 65, 109, 122, 45, 65, 108, 103, 111, 114, 105, 116, 104, 109>>  \* "X-Amz-Algorithm"
sXAmzCredential == <<88, 45, 65, 109, 122, 45, 67, 114, 101, 100, 101, 110, 116, 105, 97, 108>>  \* "X-Amz-Credential"
sXAmzDate == <<88, 45, 65, 109, 122, 45, 68, 97, 116, 101>>  \* "X-Amz-Date"
sXAmzExpires == <<88, 45, 65, 109, 122, 45, 69, 120, 112, 105, 114, 101, 115>>  \* "X-Amz-Expires"
sXAmzSignedHeaders == <<88, 45, 65, 109, 122, 45, 83, 105, 103, 110, 101, 100, 72, 101, 97, 100, 101, 114, 115>>  \* "X-Amz-SignedHeaders"
sXAmzSignature == <<88, 45, 65, 109, 122, 45, 83, 105, 103, 110, 97, 116, 117, 114, 101>>  \* "X-Amz-Signature"
sUnsignedPayload == <<85, 78, 83, 73, 71, 78, 69, 68, 45, 80, 65, 89, 76, 79, 65, 68>>  \* "UNSIGNED-PAYLOAD"
sPUT == <<80, 85, 84>>  \* "PUT"
sHttps == <<104, 116, 116, 112, 115, 58, 47, 47>>  \* "https://"
sS3 == <<115, 51>>  \* "s3"

\* single bytes used below: '\t' '\n' ' ' '%' '&' '-' '.' '/' ':' ';' '=' '?' 'T' 'Z' '_' '~'
cTab == <<9>>
cNL == <<10>>
cSP == <<32>>
cAmp == <<38>>
cSlash == <<47>>
cColon == <<58>>
cSemi == <<59>>
cEq == <<61>>
cQuestion == <<63>>

(***************************************************************************)
(* Generic sequence helpers.                                               *)
(***************************************************************************)
\* F(v), with v evaluated once
Let(v, F(_)) == CHOOSE r \in {F(x) : x \in {v}} : TRUE

RECURSIVE ConcatRange(_, _, _)
ConcatRange(parts, lo, hi) ==
    IF lo > hi THEN <<>>
    ELSE IF lo = hi THEN parts[lo]
    ELSE ConcatRange(parts, lo, (lo + hi) \div 2)
            \o ConcatRange(parts, ((lo + hi) \div 2) + 1, hi)

\* the concatenation of a sequence of strings
Concat(parts) == ConcatRange(parts, 1, Len(parts))

RECURSIVE Join(_, _)
\* strings.Join(parts, sep)
Join(parts, sep) ==
    IF parts = <<>> THEN <<>>
    ELSE IF Len(parts) = 1 THEN parts[1]
    ELSE parts[1] \o sep \o Join(Tail(parts), sep)

\* the elements of a set of numbers in ascending order
Ascending(P) ==
    [k \in 1..Cardinality(P) |->
        CHOOSE j \in P : Cardinality({x \in P : x < j}) = k - 1]

\* strings.Split(s, sep) for a one-byte separator e: the pieces between the
\* occurrences of e
Split(s, e) ==
    Let(Ascending({j \in 1..Len(s) : s[j] = e}), LAMBDA at :
        [k \in 1..(Len(at) + 1) |->
            SubSeq(s, IF k = 1 THEN 1 ELSE at[k - 1] + 1,
                      IF k > Len(at) THEN Len(s) ELSE at[k] - 1)])

\* byte-wise lexicographic order of Go's string comparison (a < b)
RECURSIVE ByteLessFrom(_, _, _)
ByteLessFrom(a, b, i) ==
    IF i > Len(b) THEN FALSE
    ELSE IF i > Len(a) THEN TRUE
    ELSE IF a[i] # b[i] THEN a[i] < b[i]
    ELSE ByteLessFrom(a, b, i + 1)

ByteLess(a, b) == ByteLessFrom(a, b, 1)

Reverse(s) == [i \in 1..Len(s) |-> s[Len(s) + 1 - i]]

Rotate(s, n) ==
    IF s = <<>> THEN s
    ELSE [i \in 1..Len(s) |-> s[((i - 1 + n) % Len(s)) + 1]]

RECURSIVE SetToSeq(_)
SetToSeq(S) ==
    IF S = {} THEN <<>>
    ELSE LET x == CHOOSE y \in S : TRUE IN <<x>> \o SetToSeq(S \ {x})

\* all orders in which the elements of S can be listed
Perms(S) ==
    {p \in [1..Cardinality(S) -> S] : \A x \in S : \E i \in DOMAIN p : p[i] = x}

(***************************************************************************)
(* UTF-8, as Go's range loop and strings.Builder.WriteRune see it.         *)
(***************************************************************************)
\* the UTF-8 encoding of a code point (utf8.EncodeRune)
Utf8(cp) ==
    IF cp < 128 THEN <<cp>>
    ELSE IF cp < 2048 THEN <<192 + (cp \div 64), 128 + (cp % 64)>>
    ELSE IF cp < 65536 THEN
        <<224 + (cp \div 4096), 128 + ((cp \div 64) % 64), 128 + (cp % 64)>>
    ELSE <<240 + (cp \div 262144), 128 + ((cp \div 4096) % 64),
           128 + ((cp \div 64) % 64), 128 + (cp % 64)>>

RECURSIVE Utf8String(_)
\* the bytes of a string given by its code points
Utf8String(cps) ==
    IF cps = <<>> THEN <<>> ELSE Utf8(Head(cps)) \o Utf8String(Tail(cps))

IsCont(s, i) == i <= Len(s) /\ s[i] >= 128 /\ s[i] <= 191

\* utf8.DecodeRuneInString(s[i:]): the rune at byte i and its width; an
\* invalid or truncated sequence decodes to U+FFFD of width 1
DecodeRune(s, i) ==
    LET b == s[i] IN
    IF b < 128 THEN [r |-> b, w |-> 1]
    ELSE IF b >= 194 /\ b <= 223 /\ IsCont(s, i + 1)
    THEN [r |-> (b - 192) * 64 + (s[i + 1] - 128), w |-> 2]
    ELSE IF /\ b >= 224 /\ b <= 239 /\ IsCont(s, i + 1) /\ IsCont(s, i + 2)
            /\ (b # 224 \/ s[i + 1] >= 160)
            /\ (b # 237 \/ s[i + 1] <= 159)
    THEN [r |-> (b - 224) * 4096 + (s[i + 1] - 128) * 64 + (s[i + 2] - 128), w |-> 3]
    ELSE IF /\ b >= 240 /\ b <= 244
            /\ IsCont(s, i + 1) /\ IsCont(s, i + 2) /\ IsCont(s, i + 3)
            /\ (b # 240 \/ s[i + 1] >= 144)
            /\ (b # 244 \/ s[i + 1] <= 143)
    THEN [r |-> (b - 240) * 262144 + (s[i + 1] - 128) * 4096
                 + (s[i + 2] - 128) * 64 + (s[i + 3] - 128), w |-> 4]
    ELSE [r |-> 65533, w |-> 1]

\* one uppercase hexadecimal digit, as a byte
HexDigit(d) == IF d < 10 THEN 48 + d ELSE 55 + d

RECURSIVE HexUpper(_)
\* fmt.Sprintf("%X", n) for n >= 0
HexUpper(n) ==
    IF n < 16 THEN <<HexDigit(n)>> ELSE HexUpper(n \div 16) \o <<HexDigit(n % 16)>>

\* fmt.Sprintf("%%%02X", r): '%', then r in uppercase hex, at least two digits
PercentRune(r) ==
    LET h == HexUpper(r) IN <<37>> \o (IF Len(h) < 2 THEN <<48>> \o h ELSE h)

RECURSIVE Decimal(_)
\* fmt.Sprintf("%d", n) for n >= 0
Decimal(n) ==
    IF n < 10 THEN <<48 + n>> ELSE Decimal(n \div 10) \o <<48 + (n % 10)>>

\* the mark standing for the 64 lowercase hex characters of a digest
HexMark == <<-1>>

(***************************************************************************)
(* uriEncode (handler.go 329-344).  The hex characters of a digest are in  *)
(* 0-9a-f and pass unchanged, so HexMark does.                             *)
(***************************************************************************)
\* the condition of lines 334-335
IsUnreservedRune(r) ==
    \/ (r >= 65 /\ r <= 90) \/ (r >= 97 /\ r <= 122) \/ (r >= 48 /\ r <= 57)
    \/ r = 95 \/ r = 45 \/ r = 126 \/ r = 46

RECURSIVE IsRuneStart(_, _)
\* whether the range loop of line 332 starts a rune at byte i: no rune that
\* starts before i reaches over it
IsRuneStart(input, i) ==
    \A j \in (IF i > 3 THEN i - 3 ELSE 1)..(i - 1) :
        ~(input[j] >= 128 /\ j + DecodeRune(input, j).w > i /\ IsRuneStart(input, j))

\* lines 333-341: what the loop body writes for rune r
EncodeRune(r, encodeSlash) ==
    IF IsUnreservedRune(r) THEN Utf8(r)
    ELSE IF r = 47 /\ ~encodeSlash THEN cSlash
    ELSE PercentRune(r)

\* uriEncode(input, encodeSlash): the loop body's output for every rune of
\* input, in order
uriEncode(input, encodeSlash) ==
    Concat([i \in 1..Len(input) |->
        IF input[i] = HexMark[1] THEN HexMark
        ELSE IF IsRuneStart(input, i)
        THEN EncodeRune(DecodeRune(input, i).r, encodeSlash)
        ELSE <<>>])

(***************************************************************************)
(* The strings package, on ASCII (the metadata alphabets of the model hold *)
(* no non-ASCII upper-case letter and no non-ASCII white space).           *)
(***************************************************************************)
\* strings.ToLower
ToLower(s) == [i \in 1..Len(s) |-> IF s[i] >= 65 /\ s[i] <= 90 THEN s[i] + 32 ELSE s[i]]

\* strings.ReplaceAll(s, "_", "-")
ReplaceUnderscores(s) == [i \in 1..Len(s) |-> IF s[i] = 95 THEN 45 ELSE s[i]]

\* unicode.IsSpace on a byte: '\t' '\n' '\v' '\f' '\r' ' '
IsSpace(b) == b \in {9, 10, 11, 12, 13, 32}

\* strings.TrimSpace
TrimSpace(s) ==
    IF \A i \in 1..Len(s) : IsSpace(s[i]) THEN <<>>
    ELSE LET first == CHOOSE i \in 1..Len(s) :
                        ~IsSpace(s[i]) /\ \A j \in 1..(i - 1) : IsSpace(s[j])
             last == CHOOSE i \in 1..Len(s) :
                        ~IsSpace(s[i]) /\ \A j \in (i + 1)..Len(s) : IsSpace(s[j])
         IN  SubSeq(s, first, last)

RECURSIVE FieldsFrom(_, _)
FieldsFrom(s, i) ==
    IF \A j \in i..Len(s) : IsSpace(s[j]) THEN <<>>
    ELSE LET b == CHOOSE j \in i..Len(s) :
                    ~IsSpace(s[j]) /\ \A k \in i..(j - 1) : IsSpace(s[k])
             e == IF \E j \in b..Len(s) : IsSpace(s[j])
                  THEN CHOOSE j \in b..Len(s) :
                         IsSpace(s[j]) /\ \A k \in b..(j - 1) : ~IsSpace(s[k])
                  ELSE Len(s) + 1
         IN  << SubSeq(s, b, e - 1) >> \o FieldsFrom(s, e)

\* strings.Fields: the maximal runs of non-space bytes
Fields(s) == FieldsFrom(s, 1)

RECURSIVE InsertSorted(_, _)
InsertSorted(sorted, x) ==
    IF sorted = <<>> THEN <<x>>
    ELSE IF ByteLess(x, Head(sorted)) THEN <<x>> \o sorted
    ELSE <<Head(sorted)>> \o InsertSorted(Tail(sorted), x)

RECURSIVE SortStrings(_)
\* sort.Strings: ascending byte-wise order
SortStrings(keys) ==
    IF keys = <<>> THEN <<>>
    ELSE InsertSorted(SortStrings(Tail(keys)), Head(keys))

\* `for k := range m`: Go leaves the order unspecified.  The keys of a map
\* with key set S come in an order chosen by seed: a rotation of some base
\* order (the runtime starts at a random slot), possibly reversed.
MapRange(S, seed) ==
    LET rot == Rotate(SetToSeq(S), seed \div 2)
    IN  IF seed % 2 = 1 THEN Reverse(rot) ELSE rot

(***************************************************************************)
(* The clock and time.Format.                                              *)
(***************************************************************************)
\* the instant of clock value 0: 2024-01-16 23:59:59 UTC
Epoch == [year |-> 2024, month |-> 1, day |-> 16, second |-> 86399]

Pad2(n) == <<48 + (n \div 10), 48 + (n % 10)>>

\* now.Format("20060102")
FormatDate(t) ==
    LET day == Epoch.day + ((Epoch.second + t) \div 86400)
    IN  Decimal(Epoch.year) \o Pad2(Epoch.month) \o Pad2(day)

\* now.Format("20060102T150405Z")
FormatAmzDate(t) ==
    LET sec == (Epoch.second + t) % 86400
    IN  FormatDate(t) \o <<84>> \o Pad2(sec \div 3600) \o Pad2((sec \div 60) % 60)
            \o Pad2(sec % 60) \o <<90>>

(***************************************************************************)
(* Hashing (handler.go 346-373), symbolic.                                 *)
(***************************************************************************)
\* s.hash(text): hex of SHA-256
hash(text) == [alg |-> "sha256hex", text |-> text]

\* s.hmacSHA256(key, data)
hmacSHA256(key, data) == [alg |-> "hmac", key |-> key, data |-> data]

\* s.hmacSHA256Hex(key, data)
hmacSHA256Hex(key, data) == [alg |-> "hex", of |-> hmacSHA256(key, data)]

\* s.getSignatureKey(secretKey, dateStamp, region, service)
getSignatureKey(secretKey, dateStamp, region, service) ==
    LET kSecret == sAWS4 \o secretKey
        kDate == hmacSHA256(kSecret, dateStamp)
        kRegion == hmacSHA256(kDate, region)
        kService == hmacSHA256(kRegion, service)
    IN  hmacSHA256(kService, sAws4Request)

(***************************************************************************)
(* The query-string builders (handler.go 283-327).                         *)
(***************************************************************************)
\* buildCanonicalQueryString(params); seed picks the order of `range params`
buildCanonicalQueryString(params, seed) ==
    Let(SortStrings(MapRange(DOMAIN params, seed)), LAMBDA keys :
        Join([i \in 1..Len(keys) |->
                uriEncode(keys[i], TRUE) \o cEq \o uriEncode(params[keys[i]], TRUE)],
             cAmp))

\* buildFinalQueryString with the '/' of every value left literal
buildFinalQueryStringSlashesLiteral(params, seed) ==
    Let(SortStrings(MapRange(DOMAIN params, seed)), LAMBDA keys :
        Join([i \in 1..Len(keys) |->
                uriEncode(keys[i], TRUE) \o cEq \o uriEncode(params[keys[i]], FALSE)],
             cAmp))

\* buildFinalQueryString without sort.Strings: the keys in the order of `range`
buildFinalQueryStringUnsorted(params, seed) ==
    Let(MapRange(DOMAIN params, seed), LAMBDA keys :
        Join([i \in 1..Len(keys) |->
                uriEncode(keys[i], TRUE) \o cEq \o
                (IF keys[i] = sXAmzCredential
                 THEN uriEncode(params[keys[i]], FALSE)
                 ELSE uriEncode(params[keys[i]], TRUE))],
             cAmp))

\* buildFinalQueryString(params); seed picks the order of `range params`
buildFinalQueryString(params, seed) ==
    Let(SortStrings(MapRange(DOMAIN params, seed)), LAMBDA keys :
        Join([i \in 1..Len(keys) |->
                uriEncode(keys[i], TRUE) \o cEq \o
                (IF keys[i] = sXAmzCredential
                 THEN uriEncode(params[keys[i]], FALSE)
                 ELSE uriEncode(params[keys[i]], TRUE))],
             cAmp))

(***************************************************************************)
(* AWSSigner.GeneratePresignedPutURL (handler.go 188-281), block by block. *)
(***************************************************************************)
\* NewAWSSigner(accessKey, secretKey, region, service)
NewAWSSigner(accessKey, secretKey, region, service) ==
    [accessKey |-> accessKey, secretKey |-> secretKey,
     region |-> region, service |-> service]

\* dateStamp taken from a second reading of the clock
DateStampResampled(now, later) == FormatDate(later)

\* line 191: dateStamp := now.Format("20060102"); now is the one sample of
\* line 189, later the clock when the statement runs
DateStamp(now, later) == FormatDate(now)

\* line 190: amzDate := now.Format("20060102T150405Z")
AmzDate(now, later) == FormatAmzDate(now)

\* line 194
Host(bucket, region) == bucket \o sS3Dot \o region \o sAmazonaws

\* the canonical URI with the key percent-encoded
CanonicalURIEscaped(key) == cSlash \o uriEncode(key, FALSE)

\* line 197
CanonicalURI(key) == cSlash \o key

\* the header name without the '_' to '-' replacement
HeaderKeyKeepsUnderscore(k) == ToLower(sMetaPrefix \o k)

\* the header name without the "x-amz-meta-" prefix
HeaderKeyNoPrefix(k) == ToLower(ReplaceUnderscores(k))

\* lines 207-208
HeaderKey(k) == ToLower(sMetaPrefix \o ReplaceUnderscores(k))

\* the header value trimmed, its inner white space kept
HeaderValueTrimOnly(v) == TrimSpace(v)

\* lines 210-212
HeaderValue(v) == Join(Fields(TrimSpace(v)), cSP)

RECURSIVE AddMetadataHeaders(_, _, _)
\* lines 205-214: the loop over metadata, visiting its keys in `order`
AddMetadataHeaders(headers, metadata, order) ==
    IF order = <<>> THEN headers
    ELSE LET k == Head(order)
         IN  AddMetadataHeaders(
                 (HeaderKey(k) :> HeaderValue(metadata[k])) @@ headers,
                 metadata, Tail(order))

\* lines 200-214: the headers map
BuildHeaders(host, metadata, order) ==
    AddMetadataHeaders((sHost :> host), metadata, order)

\* lines 217-221
HeaderKeys(headers, seed) == SortStrings(MapRange(DOMAIN headers, seed))

\* lines 223-229
CanonicalHeaders(headers, headerKeys) ==
    Join([i \in 1..Len(headerKeys) |->
            headerKeys[i] \o cColon \o TrimSpace(headers[headerKeys[i]])], cNL) \o cNL

\* line 230
SignedHeaders(headerKeys) == Join(headerKeys, cSemi)

\* line 239: int(expiration.Seconds()); a time.Duration is held in milliseconds
ExpiresSeconds(expiration) ==
    IF expiration >= 0 THEN expiration \div 1000 ELSE 0 - ((0 - expiration) \div 1000)

\* fmt.Sprintf("%d", n)
FormatInt(n) == IF n < 0 THEN <<45>> \o Decimal(0 - n) ELSE Decimal(n)

\* lines 235-241
QueryParams(s, dateStamp, amzDate, expiration, signedHeaders) ==
    (sXAmzAlgorithm :> sAlgorithm)
    @@ (sXAmzCredential :> Join(<<s.accessKey, dateStamp, s.region, s.service,
                                  sAws4Request>>, cSlash))
    @@ (sXAmzDate :> amzDate)
    @@ (sXAmzExpires :> FormatInt(ExpiresSeconds(expiration)))
    @@ (sXAmzSignedHeaders :> signedHeaders)

\* lines 250-257
CanonicalRequest(canonicalURI, canonicalQueryString, canonicalHeaders, signedHeaders) ==
    Join(<<sPUT, canonicalURI, canonicalQueryString, canonicalHeaders,
           signedHeaders, sUnsignedPayload>>, cNL)

\* lines 260-267: the four lines of the string to sign, the last one a digest
StringToSign(s, amzDate, dateStamp, canonicalRequest) ==
    [algorithm |-> sAlgorithm,
     amzDate |-> amzDate,
     credentialScope |-> Join(<<dateStamp, s.region, s.service, sAws4Request>>, cSlash),
     hashedRequest |-> hash(canonicalRequest)]

\* line 274: the parameters with the signature added (its hex text: HexMark)
WithSignature(queryParams) == (sXAmzSignature :> HexMark) @@ queryParams

\* line 278
PresignedURL(host, canonicalURI, finalQueryString) ==
    sHttps \o host \o canonicalURI \o cQuestion \o finalQueryString

\* GeneratePresignedPutURL refusing an expiration that is not positive
GeneratePresignedPutURLPositiveOnly(s, bucket, key, contentType, metadata, expiration, now, later, order, seed) ==
    IF expiration <= 0
    THEN [url |-> <<>>, signature |-> [alg |-> "none"], queryParams |-> <<>>,
          err |-> "expiration must be positive"]
    ELSE
    LET amzDate == AmzDate(now, later)
        dateStamp == DateStamp(now, later)
        host == Host(bucket, s.region)
        canonicalURI == CanonicalURI(key)
    IN
    Let(BuildHeaders(host, metadata, order), LAMBDA headers :
    Let(HeaderKeys(headers, seed), LAMBDA headerKeys :
    Let(SignedHeaders(headerKeys), LAMBDA signedHeaders :
    Let(QueryParams(s, dateStamp, amzDate, expiration, signedHeaders), LAMBDA queryParams :
    LET canonicalHeaders == CanonicalHeaders(headers, headerKeys)
        canonicalQueryString == buildCanonicalQueryString(queryParams, seed)
        canonicalRequest == CanonicalRequest(canonicalURI, canonicalQueryString,
                                             canonicalHeaders, signedHeaders)
        stringToSign == StringToSign(s, amzDate, dateStamp, canonicalRequest)
        signingKey == getSignatureKey(s.secretKey, dateStamp, s.region, s.service)
        signature == hmacSHA256Hex(signingKey, stringToSign)
        signedParams == WithSignature(queryParams)
        finalQueryString == buildFinalQueryString(signedParams, seed)
    IN  [url |-> PresignedURL(host, canonicalURI, finalQueryString),
         signature |-> signature,
         queryParams |-> signedParams,
         err |-> "nil"]))))


\* GeneratePresignedPutURL(bucket, key, contentType, metadata, expiration) on
\* signer s.  now: the instant sampled at line 189; later: the clock while the
\* rest runs; order: the order of `range metadata`; seed: the order of the
\* other three range loops.  The result is the URL (text and the signature
\* its HexMark stands for) and the final value of the local queryParams.
GeneratePresignedPutURL(s, bucket, key, contentType, metadata, expiration, now, later, order, seed) ==
    LET amzDate == AmzDate(now, later)
        dateStamp == DateStamp(now, later)
        host == Host(bucket, s.region)
        canonicalURI == CanonicalURI(key)
    IN
    Let(BuildHeaders(host, metadata, order), LAMBDA headers :
    Let(HeaderKeys(headers, seed), LAMBDA headerKeys :
    Let(SignedHeaders(headerKeys), LAMBDA signedHeaders :
    Let(QueryParams(s, dateStamp, amzDate, expiration, signedHeaders), LAMBDA queryParams :
    LET canonicalHeaders == CanonicalHeaders(headers, headerKeys)
        canonicalQueryString == buildCanonicalQueryString(queryParams, seed)
        canonicalRequest == CanonicalRequest(canonicalURI, canonicalQueryString,
                                             canonicalHeaders, signedHeaders)
        stringToSign == StringToSign(s, amzDate, dateStamp, canonicalRequest)
        signingKey == getSignatureKey(s.secretKey, dateStamp, s.region, s.service)
        signature == hmacSHA256Hex(signingKey, stringToSign)
        signedParams == WithSignature(queryParams)
        finalQueryString == buildFinalQueryString(signedParams, seed)
    IN  [url |-> PresignedURL(host, canonicalURI, finalQueryString),
         signature |-> signature,
         queryParams |-> signedParams,
         err |-> "nil"]))))

(***************************************************************************)
(* Inputs.                                                                 *)
(***************************************************************************)
Procs == {1, 2}

\* signer configurations (access key, secret key, region):
\* "AK1", "sk1", "r1" and "AK2", "sk2", "eu"
Configs ==
    {NewAWSSigner(<<65, 75, 49>>, <<115, 107, 49>>, <<114, 49>>, sS3),
     NewAWSSigner(<<65, 75, 50>>, <<115, 107, 50>>, <<101, 117>>, sS3)}

\* the bucket "tb", the object key "i/d/f.t", the content type "a/p"
DefaultBucket == <<116, 98>>
DefaultKey == <<105, 47, 100, 47, 102, 46, 116>>
DefaultContentType == <<97, 47, 112>>
\* the content types of concurrent calls: "a/p" and "t/x"
ContentTypes == {DefaultContentType, <<116, 47, 120>>}
\* 180 s, as a time.Duration in milliseconds
DefaultExpiration == 180 * 1000

\* metadata keys "l", "L", "host", "u_e", "u-e" and "é" (bytes C3 A9)
MetaKeys == {<<108>>, <<76>>, <<104, 111, 115, 116>>, <<117, 95, 101>>, <<117, 45, 101>>, <<195, 169>>}
\* metadata values "x" and " e  s "
MetaValues == {<<120>>, <<32, 101, 32, 32, 115, 32>>}

\* every metadata mapping of at most MaxMeta entries
AllMetadata ==
    UNION {[D -> MetaValues] : D \in {E \in SUBSET MetaKeys : Cardinality(E) <= MaxMeta}}

\* the metadata of concurrent calls: none; {"l": "x", "L": " e  s "};
\* {"l": "x", "i": "x"}
MetadataSamples ==
    {<<>>,
     (<<108>> :> <<120>>) @@ (<<76>> :> <<32, 101, 32, 32, 115, 32>>),
     (<<108>> :> <<120>>) @@ (<<105>> :> <<120>>)}

\* code points of the inputs of uriEncode: 'a' '/' ' ' '~' '%' U+00E9 U+20AC
EncCodePoints == {97, 47, 32, 126, 37, 233, 8364}

RECURSIVE SeqsUpTo(_, _)
\* the sequences over S of length at most n
SeqsUpTo(S, n) ==
    IF n = 0 THEN {<<>>}
    ELSE LET shorter == SeqsUpTo(S, n - 1)
         IN  shorter \cup {Append(t, x) : t \in shorter, x \in S}

\* keys and values of the parameter maps of the query-string builders:
\* "X-Amz-Credential", "X-Amz-Date", "k/", "b"; "AK/d/r", "a b", "/", "x"
ParamKeys == {sXAmzCredential, sXAmzDate, <<107, 47>>, <<98>>}
ParamValues == {<<65, 75, 47, 100, 47, 114>>, <<97, 32, 98>>, <<47>>, <<120>>}
AllParams ==
    UNION {[D -> ParamValues] : D \in {E \in SUBSET ParamKeys : Cardinality(E) <= MaxParams}}

\* buckets "tb" and "b-2"; keys "", "i/d/f.t" and "a b%/é"; expirations of
\* 0 s, 1.5 s, 180 s and -1.5 s (milliseconds)
SignerInputs ==
    [bucket : {DefaultBucket, <<98, 45, 50>>},
     key : {<<>>, DefaultKey, <<97, 32, 98, 37, 47, 195, 169>>},
     expiration : {0, 1500, DefaultExpiration, 0 - 1500}]

\* bytes of the metadata values of the value normalisation: ' ' '\t' 'x'
ValueBytes == {32, 9, 120}

(***************************************************************************)
(* State.                                                                  *)
(*   clock   seconds elapsed since Epoch                                   *)
(*   signer  the AWSSigner built at start-up                               *)
(*   calls   per goroutine, its call of GeneratePresignedPutURL            *)
(*   fn      one application of a pure function of the signer              *)
(*   main    the position of main and what it has built                    *)
(*   reqs    per goroutine, the HTTP request it serves                     *)
(***************************************************************************)
IdleCall ==
    [pc |-> "idle", bucket |-> <<>>, key |-> <<>>, contentType |-> <<>>,
     metadata |-> <<>>, expiration |-> 0, now |-> 0, later |-> 0,
     url |-> <<>>, signature |-> [alg |-> "none"], queryParams |-> <<>>,
     err |-> "nil"]

NoFn == [op |-> "none", args |-> <<>>, out |-> <<>>, done |-> FALSE]

\* the value of a *Config or *S3Service that has not been built
NoConfig ==
    [AWSRegion |-> <<>>, AWSAccessKeyID |-> <<>>, AWSSecretAccessKey |-> <<>>,
     S3BucketName |-> <<>>, CompanyPrefix |-> <<>>, PresignedURLExpirationMinutes |-> 0]

NoS3Service ==
    [bucketName |-> <<>>, companyPrefix |-> <<>>, region |-> <<>>, expiration |-> 0]

\* an empty environment
NoEnv ==
    [region |-> <<>>, accessKey |-> <<>>, secretKey |-> <<>>, bucket |-> <<>>,
     companyPrefix |-> <<>>, expiration |-> <<>>]

\* main not running (the signer is exercised on its own)
NoMain == [phase |-> "off", env |-> NoEnv, cfg |-> NoConfig, s3Service |-> NoS3Service]

\* a decoded request body
NoBody == [decodes |-> FALSE, filename |-> <<>>, contentType |-> <<>>, metadata |-> <<>>]

\* a goroutine of the HTTP server with no request yet
IdleRequest ==
    [pc |-> "idle", kind |-> "none", body |-> NoBody, responses |-> <<>>,
     serviceCalls |-> 0, fullKey |-> <<>>, objects |-> <<>>,
     result |-> [exists |-> FALSE, key |-> <<>>, err |-> "nil"]]

Init ==
    /\ clock = 0
    /\ signer \in Configs
    /\ calls = [p \in Procs |-> IdleCall]
    /\ fn = NoFn
    /\ main = NoMain
    /\ reqs = [p \in Procs |-> IdleRequest]

\* the wall clock advances by one second
Tick ==
    /\ clock < MaxTicks
    /\ clock' = clock + 1
    /\ UNCHANGED <<signer, calls, fn, main, reqs>>

\* goroutine p enters GeneratePresignedPutURL and runs lines 189-191: the
\* clock is sampled
Enter(p, bucket, key, contentType, metadata, expiration) ==
    /\ calls[p].pc = "idle"
    /\ calls' = [calls EXCEPT ![p] =
                    [IdleCall EXCEPT !.pc = "signing", !.bucket = bucket,
                        !.key = key, !.contentType = contentType,
                        !.metadata = metadata, !.expiration = expiration,
                        !.now = clock]]
    /\ UNCHANGED <<clock, signer, fn, main, reqs>>

\* Return wiping the signer's secret key once the URL is signed
ReturnWipingSecret(p) ==
    /\ calls[p].pc = "signing"
    /\ \E order \in Perms(DOMAIN calls[p].metadata), seed \in 0..MaxSeed :
         LET c == calls[p]
         IN  \E r \in {GeneratePresignedPutURL(signer, c.bucket, c.key,
                           c.contentType, c.metadata, c.expiration, c.now, clock,
                           order, seed)} :
               calls' = [calls EXCEPT ![p] =
                          [c EXCEPT !.pc = "done", !.later = clock, !.url = r.url,
                              !.signature = r.signature,
                              !.queryParams = r.queryParams, !.err = r.err]]
    /\ signer' = [signer EXCEPT !.secretKey = <<>>]
    /\ UNCHANGED <<clock, fn, main, reqs>>


\* goroutine p runs lines 193-280 and returns
Return(p) ==
    /\ calls[p].pc = "signing"
    /\ \E order \in Perms(DOMAIN calls[p].metadata), seed \in 0..MaxSeed :
         LET c == calls[p]
         IN  \E r \in {GeneratePresignedPutURL(signer, c.bucket, c.key,
                           c.contentType, c.metadata, c.expiration, c.now, clock,
                           order, seed)} :
               calls' = [calls EXCEPT ![p] =
                          [c EXCEPT !.pc = "done", !.later = clock, !.url = r.url,
                              !.signature = r.signature,
                              !.queryParams = r.queryParams, !.err = r.err]]
    /\ UNCHANGED <<clock, signer, fn, main, reqs>>

\* a request handled by goroutine p reaches the signer
Call(p) ==
    \E metadata \in MetadataSamples, contentType \in ContentTypes :
        Enter(p, DefaultBucket, DefaultKey, contentType, metadata,
              DefaultExpiration)

Next ==
    \/ Tick
    \/ \E p \in Procs : Call(p)
    \/ \E p \in Procs : Return(p)

Spec == Init /\ [][Next]_vars

(***************************************************************************)
(* The pure functions of the signer, applied to inputs drawn by the        *)
(* initial state.                                                          *)
(***************************************************************************)
InitPure ==
    /\ clock = 0
    /\ signer \in Configs
    /\ calls = [p \in Procs |-> IdleCall]
    /\ \/ \E cps \in SeqsUpTo(EncCodePoints, MaxLen), encodeSlash \in BOOLEAN :
            fn = [NoFn EXCEPT !.op = "uriEncode",
                     !.args = [input |-> Utf8String(cps), encodeSlash |-> encodeSlash]]
       \/ \E params \in AllParams :
            fn = [NoFn EXCEPT !.op = "query", !.args = [params |-> params]]
       \/ \E v \in SeqsUpTo(ValueBytes, MaxValLen) :
            fn = [NoFn EXCEPT !.op = "value", !.args = [value |-> v]]
       \/ fn = [NoFn EXCEPT !.op = "sign"]
    /\ main = NoMain
    /\ reqs = [p \in Procs |-> IdleRequest]

\* uriEncode(input, encodeSlash)
ApplyUriEncode ==
    /\ fn.op = "uriEncode" /\ ~fn.done
    /\ fn' = [fn EXCEPT !.done = TRUE,
                 !.out = uriEncode(fn.args.input, fn.args.encodeSlash)]
    /\ UNCHANGED <<clock, signer, calls, main, reqs>>

\* both query-string builders on the same parameter map
ApplyQueryBuilders ==
    /\ fn.op = "query" /\ ~fn.done
    /\ \E seedC \in 0..MaxSeed, seedF \in 0..MaxSeed :
         fn' = [fn EXCEPT !.done = TRUE,
                   !.out = [canonical |-> buildCanonicalQueryString(fn.args.params, seedC),
                            final |-> buildFinalQueryString(fn.args.params, seedF)]]
    /\ UNCHANGED <<clock, signer, calls, main, reqs>>

\* lines 200-229 for the metadata {"l": value}: the canonical header block
ApplyHeaderValue ==
    /\ fn.op = "value" /\ ~fn.done
    /\ \E seed \in 0..MaxSeed :
         LET headers == BuildHeaders(Host(DefaultBucket, signer.region),
                                     (<<108>> :> fn.args.value), << <<108>> >>)
         IN  fn' = [fn EXCEPT !.done = TRUE,
                       !.out = CanonicalHeaders(headers, HeaderKeys(headers, seed))]
    /\ UNCHANGED <<clock, signer, calls, main, reqs>>

\* one call of GeneratePresignedPutURL: with any metadata mapping, or with
\* any of SignerInputs
CallAny ==
    /\ fn.op = "sign"
    /\ \/ \E metadata \in AllMetadata :
            Enter(1, DefaultBucket, DefaultKey, DefaultContentType, metadata,
                  DefaultExpiration)
       \/ \E in \in SignerInputs, metadata \in MetadataSamples :
            Enter(1, in.bucket, in.key, DefaultContentType, metadata, in.expiration)

NextPure ==
    \/ ApplyUriEncode
    \/ ApplyQueryBuilders
    \/ ApplyHeaderValue
    \/ CallAny
    \/ (fn.op = "sign" /\ Return(1))

SpecPure == InitPure /\ [][NextPure]_vars

(***************************************************************************)
(* Configuration (main.go 90-142).                                         *)
(***************************************************************************)
sDefaultRegion == <<117, 115, 45, 101, 97, 115, 116, 45, 49>>
sDefaultExpiration == <<51>>
sInputs == <<105, 110, 112, 117, 116, 115, 47>>

\* getEnv(key, defaultValue), value being os.Getenv(key): "" when unset
getEnv(value, defaultValue) == IF value # <<>> THEN value ELSE defaultValue

IsDigit(b) == b >= 48 /\ b <= 57

RECURSIVE DigitsValue(_)
\* the number written by a string of decimal digits
DigitsValue(s) ==
    IF s = <<>> THEN 0
    ELSE DigitsValue(SubSeq(s, 1, Len(s) - 1)) * 10 + (s[Len(s)] - 48)

\* strconv.Atoi(s): an optional sign and at least one decimal digit
Atoi(s) ==
    LET signed == s # <<>> /\ s[1] \in {43, 45}
        digits == IF signed THEN Tail(s) ELSE s
    IN  IF digits = <<>> \/ \E i \in 1..Len(digits) : ~IsDigit(digits[i])
        THEN [value |-> 0, err |-> "syntax"]
        ELSE [value |-> IF signed /\ s[1] = 45 THEN 0 - DigitsValue(digits)
                        ELSE DigitsValue(digits),
              err |-> "nil"]

\* LoadConfig without the check of S3_BUCKET_NAME
LoadConfigNoBucketCheck(env) ==
    LET config == [AWSRegion |-> getEnv(env.region, sDefaultRegion),
                   AWSAccessKeyID |-> getEnv(env.accessKey, <<>>),
                   AWSSecretAccessKey |-> getEnv(env.secretKey, <<>>),
                   S3BucketName |-> getEnv(env.bucket, <<>>),
                   CompanyPrefix |-> getEnv(env.companyPrefix, <<>>),
                   PresignedURLExpirationMinutes |-> 0]
        expiration == Atoi(getEnv(env.expiration, sDefaultExpiration))
    IN  IF expiration.err # "nil"
        THEN [config |-> NoConfig, err |-> "invalid PRESIGNED_URL_EXPIRATION_MINUTES value"]
        ELSE IF config.AWSAccessKeyID = <<>>
        THEN [config |-> NoConfig, err |-> "AWS_ACCESS_KEY_ID is required"]
        ELSE IF config.AWSSecretAccessKey = <<>>
        THEN [config |-> NoConfig, err |-> "AWS_SECRET_ACCESS_KEY is required"]
        ELSE [config |-> [config EXCEPT !.PresignedURLExpirationMinutes = expiration.value],
              err |-> "nil"]


\* LoadConfig(), env being the process environment
LoadConfig(env) ==
    LET config == [AWSRegion |-> getEnv(env.region, sDefaultRegion),
                   AWSAccessKeyID |-> getEnv(env.accessKey, <<>>),
                   AWSSecretAccessKey |-> getEnv(env.secretKey, <<>>),
                   S3BucketName |-> getEnv(env.bucket, <<>>),
                   CompanyPrefix |-> getEnv(env.companyPrefix, <<>>),
                   PresignedURLExpirationMinutes |-> 0]
        expiration == Atoi(getEnv(env.expiration, sDefaultExpiration))
    IN  IF expiration.err # "nil"
        THEN [config |-> NoConfig, err |-> "invalid PRESIGNED_URL_EXPIRATION_MINUTES value"]
        ELSE IF config.AWSAccessKeyID = <<>>
        THEN [config |-> NoConfig, err |-> "AWS_ACCESS_KEY_ID is required"]
        ELSE IF config.AWSSecretAccessKey = <<>>
        THEN [config |-> NoConfig, err |-> "AWS_SECRET_ACCESS_KEY is required"]
        ELSE IF config.S3BucketName = <<>>
        THEN [config |-> NoConfig, err |-> "S3_BUCKET_NAME is required"]
        ELSE [config |-> [config EXCEPT !.PresignedURLExpirationMinutes = expiration.value],
              err |-> "nil"]

(***************************************************************************)
(* S3Service (s3_service.go).                                              *)
(***************************************************************************)
\* time.Duration(minutes) * time.Minute, a time.Duration held in milliseconds
MinutesDuration(minutes) == minutes * 60 * 1000

\* NewS3Service(cfg): the service and the signer it builds
NewS3Service(cfg) ==
    [signer |-> NewAWSSigner(cfg.AWSAccessKeyID, cfg.AWSSecretAccessKey,
                             cfg.AWSRegion, sS3),
     service |-> [bucketName |-> cfg.S3BucketName,
                  companyPrefix |-> cfg.CompanyPrefix,
                  region |-> cfg.AWSRegion,
                  expiration |-> MinutesDuration(cfg.PresignedURLExpirationMinutes)]]

\* buildObjectKey(objectKey)
buildObjectKey(s, objectKey) ==
    IF s.companyPrefix = <<>> THEN objectKey
    ELSE s.companyPrefix \o cSlash \o objectKey

\* now.Format("2006-01-02")
FormatDashedDate(t) ==
    LET day == Epoch.day + ((Epoch.second + t) \div 86400)
    IN  Decimal(Epoch.year) \o <<45>> \o Pad2(Epoch.month) \o <<45>> \o Pad2(day)

\* now.Format("15-04-05")
FormatDashedTime(t) ==
    LET sec == (Epoch.second + t) % 86400
    IN  Pad2(sec \div 3600) \o <<45>> \o Pad2((sec \div 60) % 60) \o <<45>> \o Pad2(sec % 60)

\* buildTimestampedPath(filename), now being its own reading of the clock
buildTimestampedPath(filename, now) ==
    sInputs \o FormatDashedDate(now) \o cSlash \o FormatDashedTime(now)
        \o cSlash \o filename

\* the search prefix of SearchObjectByFilename
SearchPrefix(s) ==
    IF s.companyPrefix = <<>> THEN sInputs ELSE s.companyPrefix \o cSlash

HasPrefix(key, prefix) ==
    Len(key) >= Len(prefix) /\ SubSeq(key, 1, Len(prefix)) = prefix

\* len(key) >= len(filename) && key[len(key)-len(filename):] == filename
EndsWith(key, filename) ==
    /\ Len(key) >= Len(filename)
    /\ SubSeq(key, Len(key) - Len(filename) + 1, Len(key)) = filename

\* s.client.ListObjectsV2 with Prefix: the keys of the bucket that start with
\* the prefix, in the bucket's key order
ListObjectsV2(objects, prefix) ==
    SelectSeq(objects, LAMBDA key : HasPrefix(key, prefix))

\* the loop over result.Contents: the first key that matches
FirstMatch(contents, filename) ==
    LET hits == {i \in 1..Len(contents) : EndsWith(contents[i], filename)}
    IN  IF hits = {} THEN [exists |-> FALSE, key |-> <<>>, err |-> "nil"]
        ELSE [exists |-> TRUE,
              key |-> contents[CHOOSE i \in hits : \A j \in hits : i <= j],
              err |-> "nil"]

\* SearchObjectByFilename(ctx, filename); objects: the bucket's keys;
\* listErr: whether ListObjectsV2 fails
SearchObjectByFilename(s, filename, objects, listErr) ==
    IF listErr THEN [exists |-> FALSE, key |-> <<>>, err |-> "failed to list objects"]
    ELSE FirstMatch(ListObjectsV2(objects, SearchPrefix(s)), filename)

(***************************************************************************)
(* The running service: main (main.go 18-77) and the two POST handlers     *)
(* (handler.go 42-103, 137-155).                                           *)
(***************************************************************************)
\* the goroutines serving HTTP requests
Workers == {1}

\* a signer that has not been constructed
NoSigner == NewAWSSigner(<<>>, <<>>, <<>>, <<>>)

\* an environment with every setting given: region "r1", access key "AK1",
\* secret "sk1", bucket "tb", no company prefix, expiration unset (3 minutes)
GoodEnv ==
    [region |-> <<114, 49>>, accessKey |-> <<65, 75, 49>>, secretKey |-> <<115, 107, 49>>, bucket |-> <<116, 98>>,
     companyPrefix |-> <<>>, expiration |-> <<>>]

\* the environments the process is started in
Environments ==
    {GoodEnv,
     [GoodEnv EXCEPT !.region = <<>>],
     [GoodEnv EXCEPT !.accessKey = <<>>],
     [GoodEnv EXCEPT !.secretKey = <<>>],
     [GoodEnv EXCEPT !.bucket = <<>>],
     [GoodEnv EXCEPT !.companyPrefix = <<99>>, !.expiration = <<49, 53>>],
     [GoodEnv EXCEPT !.expiration = <<120>>],
     [GoodEnv EXCEPT !.expiration = <<48>>],
     [GoodEnv EXCEPT !.expiration = <<45, 49>>]}

\* request bodies of POST /api/v1/presigned-url/upload: not JSON; no
\* filename; "f.t" alone; "f.t" with content type and metadata; "a ?" alone
UploadBodies ==
    {NoBody,
     [NoBody EXCEPT !.decodes = TRUE],
     [NoBody EXCEPT !.decodes = TRUE, !.filename = <<102, 46, 116>>],
     [NoBody EXCEPT !.decodes = TRUE, !.filename = <<102, 46, 116>>, !.contentType = <<97, 47, 112>>,
                    !.metadata = (<<108>> :> <<32, 101, 32, 32, 115, 32>>)],
     [NoBody EXCEPT !.decodes = TRUE, !.filename = <<97, 32, 63>>]}

\* request bodies of POST /api/v1/object/search: not JSON; no filename;
\* "f.t"; "t"
SearchBodies ==
    {NoBody,
     [NoBody EXCEPT !.decodes = TRUE],
     [NoBody EXCEPT !.decodes = TRUE, !.filename = <<102, 46, 116>>],
     [NoBody EXCEPT !.decodes = TRUE, !.filename = <<116>>]}

\* the keys of the bucket, in key order
SampleBuckets ==
    {<<>>,
     <<<<99, 47, 105, 110, 112, 117, 116, 115, 47, 100, 47, 102, 46, 116>>, <<105, 110, 112, 117, 116, 115, 47, 100, 47, 102, 46, 116>>, <<105, 110, 112, 117, 116, 115, 47, 100, 47, 103, 46, 116>>>>,
     <<<<99, 47, 105, 110, 112, 117, 116, 115, 47, 100, 47, 103, 46, 116>>, <<105, 110, 112, 117, 116, 115, 47, 100, 47, 103, 46, 112, 100, 102>>, <<105, 110, 112, 117, 116, 115, 47, 100, 47, 120, 102, 46, 116>>, <<105, 110, 112, 117, 116, 115, 47, 101, 47, 102, 46, 116>>>>}

\* json.Marshal(payload) fails: never, the payloads hold strings and booleans
MarshalFails(payload) == FALSE

\* respondWithJSON(w, code, payload): the response written
respondWithJSON(code, payload) ==
    IF MarshalFails(payload)
    THEN [status |-> 500, payload |-> [error |-> "Internal Server Error"]]
    ELSE [status |-> code, payload |-> payload]

\* respondWithError(w, code, error, message)
respondWithError(code, error) == respondWithJSON(code, [error |-> error])

\* RejectReason without the check of the filename
RejectReasonDecodeOnly(body) ==
    IF ~body.decodes THEN "Invalid request body" ELSE ""


\* lines 48-56 and 79-87: why the handler rejects a body, "" when it does not
RejectReason(body) ==
    IF ~body.decodes THEN "Invalid request body"
    ELSE IF body.filename = <<>> THEN "filename is required"
    ELSE ""

InitService ==
    /\ clock = 0
    /\ signer = NoSigner
    /\ calls = [p \in Procs |-> IdleCall]
    /\ fn = NoFn
    /\ main \in {[NoMain EXCEPT !.phase = "boot", !.env = env] : env \in Environments}
    /\ reqs = [p \in Procs |-> IdleRequest]

\* main.go 20-23
LoadConfigStep ==
    /\ main.phase = "boot"
    /\ LET r == LoadConfig(main.env)
       IN  main' = IF r.err # "nil" THEN [main EXCEPT !.phase = "exited"]
                   ELSE [main EXCEPT !.phase = "configured", !.cfg = r.config]
    /\ UNCHANGED <<clock, signer, calls, fn, reqs>>

\* main.go 31-34; awsErr: awsConfig.LoadDefaultConfig fails
NewS3ServiceStep ==
    /\ main.phase = "configured"
    /\ \E awsErr \in BOOLEAN :
         IF awsErr
         THEN main' = [main EXCEPT !.phase = "exited"] /\ signer' = signer
         ELSE LET built == NewS3Service(main.cfg)
              IN  /\ main' = [main EXCEPT !.phase = "constructed",
                                          !.s3Service = built.service]
                  /\ signer' = built.signer
    /\ UNCHANGED <<clock, calls, fn, reqs>>

\* main.go 37-58; listens: server.ListenAndServe binds the port
ListenAndServe ==
    /\ main.phase = "constructed"
    /\ \E listens \in BOOLEAN :
         main' = [main EXCEPT !.phase = IF listens THEN "serving" ELSE "exited"]
    /\ UNCHANGED <<clock, signer, calls, fn, reqs>>

\* main.go 61-76: a signal arrives, the server stops accepting
Shutdown ==
    /\ main.phase = "serving"
    /\ main' = [main EXCEPT !.phase = "stopped"]
    /\ UNCHANGED <<clock, signer, calls, fn, reqs>>

\* handler.go 129-130: the router hands a POST to one of the two handlers
Receive(p) ==
    /\ main.phase = "serving"
    /\ reqs[p].pc = "idle"
    /\ \E kind \in {"search", "upload"} :
         \E body \in (IF kind = "search" THEN SearchBodies ELSE UploadBodies) :
            reqs' = [reqs EXCEPT ![p] =
                        [IdleRequest EXCEPT !.pc = "received", !.kind = kind,
                                            !.body = body]]
    /\ UNCHANGED <<clock, signer, calls, fn, main>>

\* handler.go 44-56 and 78-87
Validate(p) ==
    /\ reqs[p].pc = "received"
    /\ LET r == reqs[p]
           reason == RejectReason(r.body)
       IN  reqs' = [reqs EXCEPT ![p] =
                IF reason # ""
                THEN [r EXCEPT !.pc = "done",
                        !.responses = Append(@, respondWithError(400, reason))]
                ELSE [r EXCEPT !.pc = "service"]]
    /\ UNCHANGED <<clock, signer, calls, fn, main>>

\* handler.go 58-73 with s3_service.go 80-112
SearchStep(p) ==
    /\ reqs[p].pc = "service" /\ reqs[p].kind = "search"
    /\ \E objects \in SampleBuckets, listErr \in BOOLEAN :
         LET r == reqs[p]
             found == SearchObjectByFilename(main.s3Service, r.body.filename,
                                             objects, listErr)
             response ==
                 IF found.err # "nil"
                 THEN respondWithError(500, "Failed to search object")
                 ELSE IF found.exists
                 THEN respondWithJSON(200, [exists |-> TRUE, filename |-> r.body.filename,
                                            object_key |-> found.key])
                 ELSE respondWithJSON(200, [exists |-> FALSE, filename |-> r.body.filename])
         IN  reqs' = [reqs EXCEPT ![p] =
                        [r EXCEPT !.pc = "done", !.serviceCalls = @ + 1,
                            !.objects = IF listErr THEN <<>> ELSE objects,
                            !.result = found,
                            !.responses = Append(@, response)]]
    /\ UNCHANGED <<clock, signer, calls, fn, main>>

\* handler.go 89 with s3_service.go 116-121: the object key, from
\* buildTimestampedPath's own reading of the clock
UploadPath(p) ==
    /\ reqs[p].pc = "service" /\ reqs[p].kind = "upload"
    /\ reqs' = [reqs EXCEPT ![p] =
                  [@ EXCEPT !.pc = "signer", !.serviceCalls = @ + 1,
                      !.fullKey = buildObjectKey(main.s3Service,
                                      buildTimestampedPath(reqs[p].body.filename, clock))]]
    /\ UNCHANGED <<clock, signer, calls, fn, main>>

\* s3_service.go 124: the call of the signer
UploadEnter(p) ==
    /\ reqs[p].pc = "signer"
    /\ Enter(p, main.s3Service.bucketName, reqs[p].fullKey, reqs[p].body.contentType,
             reqs[p].body.metadata, main.s3Service.expiration)

\* s3_service.go 125-129 and handler.go 90-102
UploadRespond(p) ==
    /\ reqs[p].pc = "signer" /\ calls[p].pc = "done"
    /\ LET r == reqs[p]
           response ==
               IF calls[p].err # "nil"
               THEN respondWithError(500, "Failed to generate presigned URL")
               ELSE respondWithJSON(200, [url |-> calls[p].url,
                                          expires_in |-> "configured expiration time"])
       IN  reqs' = [reqs EXCEPT ![p] =
                      [r EXCEPT !.pc = "done", !.responses = Append(@, response)]]
    /\ UNCHANGED <<clock, signer, calls, fn, main>>

NextService ==
    \/ LoadConfigStep
    \/ NewS3ServiceStep
    \/ ListenAndServe
    \/ Shutdown
    \/ Tick
    \/ \E p \in Workers : Receive(p)
    \/ \E p \in Workers : Validate(p)
    \/ \E p \in Workers : SearchStep(p)
    \/ \E p \in Workers : UploadPath(p)
    \/ \E p \in Workers : UploadEnter(p)
    \/ \E p \in Workers : Return(p)
    \/ \E p \in Workers : UploadRespond(p)

SpecService == InitService /\ [][NextService]_vars


(***************************************************************************)
(* Reading a finished call: what was signed and what was emitted.          *)
(***************************************************************************)
Done(p) == calls[p].pc = "done"

\* the canonical request whose hash the signature covers
SignedRequest(c) == c.signature.of.data.hashedRequest.text

\* its lines: PUT, the URI, the query string, the header lines, an empty
\* line, the signed headers, the payload token
RequestLines(c) == Split(SignedRequest(c), 10)

SignedQueryLine(c) == RequestLines(c)[3]

HeaderLines(c) == Let(RequestLines(c), LAMBDA ls : SubSeq(ls, 4, Len(ls) - 3))

SignedHeadersLine(c) == Let(RequestLines(c), LAMBDA ls : ls[Len(ls) - 1])

\* name and value of a `name:value` line
LineName(line) == Split(line, 58)[1]
LineValue(line) == SubSeq(line, Len(LineName(line)) + 2, Len(line))

\* the query string of the emitted URL
UrlQuery(c) == Let(Split(c.url, 63), LAMBDA parts : parts[Len(parts)])

\* the keys of a query string, in the order written
QueryKeys(q) == Let(Split(q, 38), LAMBDA ps : [i \in 1..Len(ps) |-> Split(ps[i], 61)[1]])

\* the (still encoded) value written for key k in a query string
QueryValue(q, k) ==
    Let(Split(q, 38), LAMBDA ps :
        Let(CHOOSE i \in 1..Len(ps) : Split(ps[i], 61)[1] = k, LAMBDA i :
            SubSeq(ps[i], Len(k) + 2, Len(ps[i]))))

StrictlyAscending(names) ==
    \A i \in 1..(Len(names) - 1) : ByteLess(names[i], names[i + 1])

Range(f) == {f[x] : x \in DOMAIN f}

\* normalize(k) of the header-set law: '_' becomes '-', upper case becomes lower
NormalizeName(k) ==
    [i \in 1..Len(k) |->
        IF k[i] = 95 THEN 45
        ELSE IF k[i] >= 65 /\ k[i] <= 90 THEN k[i] + 32
        ELSE k[i]]

(***************************************************************************)
(* C1  Two calls of GeneratePresignedPutURL with identical inputs and the  *)
(* identical sampled instant return byte-identical URLs, whatever order    *)
(* the metadata map is iterated in.                                        *)
(***************************************************************************)
C1_Deterministic ==
    \A p \in Procs, q \in Procs :
        ( /\ Done(p) /\ Done(q)
          /\ calls[p].bucket = calls[q].bucket
          /\ calls[p].key = calls[q].key
          /\ calls[p].contentType = calls[q].contentType
          /\ calls[p].metadata = calls[q].metadata
          /\ calls[p].expiration = calls[q].expiration
          /\ calls[p].now = calls[q].now )
        => /\ calls[p].url = calls[q].url
           /\ calls[p].signature = calls[q].signature

(***************************************************************************)
(* C2  Header-set law: X-Amz-SignedHeaders is the ';'-join of the sorted   *)
(* set {"host"} \cup {"x-amz-meta-" + normalize(k) : k a metadata key};    *)
(* no metadata gives exactly "host".                                       *)
(***************************************************************************)
C2_HeaderSetLaw ==
    \A p \in Procs : Done(p) =>
        Let(Split(calls[p].queryParams[sXAmzSignedHeaders], 59), LAMBDA names :
            /\ StrictlyAscending(names)
            /\ Range(names) =
                 {sHost} \cup {sMetaPrefix \o NormalizeName(k) :
                                 k \in DOMAIN calls[p].metadata}
            /\ (DOMAIN calls[p].metadata = {}
                  => calls[p].queryParams[sXAmzSignedHeaders] = sHost))

\* a finished call whose metadata has the keys "u_e" and "l"
C2_Witness ==
    /\ Done(1)
    /\ {<<117, 95, 101>>, <<108>>} \subseteq DOMAIN calls[1].metadata

(***************************************************************************)
(* C3  For a metadata mapping with n keys the canonical header block has   *)
(* n+1 lines and X-Amz-SignedHeaders has n+1 names.                        *)
(***************************************************************************)
C3_OneHeaderPerKey ==
    \A p \in Procs : Done(p) =>
        /\ Len(HeaderLines(calls[p])) = Cardinality(DOMAIN calls[p].metadata) + 1
        /\ Len(Split(calls[p].queryParams[sXAmzSignedHeaders], 59))
             = Cardinality(DOMAIN calls[p].metadata) + 1

(***************************************************************************)
(* C4  The signed-headers list is exactly the sequence of header names of  *)
(* the canonical header lines, in the same sorted order; it includes host, *)
(* whose line is always "host:{bucket}.s3.{region}.amazonaws.com"; the     *)
(* same string is in the canonical request and in X-Amz-SignedHeaders.     *)
(***************************************************************************)
C4_SignedHeadersAreHeaderNames ==
    \A p \in Procs : Done(p) =>
        Let(HeaderLines(calls[p]), LAMBDA lines :
            /\ [i \in 1..Len(lines) |-> LineName(lines[i])]
                 = Split(SignedHeadersLine(calls[p]), 59)
            /\ StrictlyAscending([i \in 1..Len(lines) |-> LineName(lines[i])])
            /\ \E i \in 1..Len(lines) :
                 lines[i] = sHost \o cColon \o calls[p].bucket \o sS3Dot
                              \o signer.region \o sAmazonaws
            /\ Cardinality({i \in 1..Len(lines) : LineName(lines[i]) = sHost}) = 1
            /\ calls[p].queryParams[sXAmzSignedHeaders] = SignedHeadersLine(calls[p]))

\* a finished call whose metadata has the key "host" and one more
C4_Witness ==
    /\ Done(1)
    /\ <<104, 111, 115, 116>> \in DOMAIN calls[1].metadata
    /\ Cardinality(DOMAIN calls[1].metadata) = 2

(***************************************************************************)
(* C5  uriEncode operates per raw byte: its output is the reference        *)
(* encoding that passes each byte of A-Z a-z 0-9 - _ . ~ unchanged, passes *)
(* '/' when encodeSlash is false, and writes every other byte of the       *)
(* UTF-8 encoding as uppercase %XX, two hex digits per byte.               *)
(***************************************************************************)
\* the reference encoding of one byte
RefEncodeByte(byte, encodeSlash) ==
    IF \/ (byte >= 65 /\ byte <= 90) \/ (byte >= 97 /\ byte <= 122)
       \/ (byte >= 48 /\ byte <= 57) \/ byte \in {45, 95, 46, 126}
    THEN <<byte>>
    ELSE IF byte = 47 /\ ~encodeSlash THEN <<47>>
    ELSE IF byte = HexMark[1] THEN HexMark
    ELSE <<37, HexDigit(byte \div 16), HexDigit(byte % 16)>>

RefEncode(input, encodeSlash) ==
    Concat([i \in 1..Len(input) |-> RefEncodeByte(input[i], encodeSlash)])

C5_EncodesPerByte ==
    (fn.op = "uriEncode" /\ fn.done)
        => fn.out = RefEncode(fn.args.input, fn.args.encodeSlash)

(***************************************************************************)
(* C6  Encoding asymmetry: both builders write the same keys in the same   *)
(* sorted order joined with '&'; they differ only in the value of          *)
(* X-Amz-Credential, whose '/' the canonical form writes as %2F and the    *)
(* final form leaves literal; every other value is the same in both, with  *)
(* '/' escaped.                                                            *)
(***************************************************************************)
HexValue(byte) == IF byte <= 57 THEN byte - 48 ELSE byte - 55

\* percent-decoding: %XX becomes the byte XX, every other byte stands
PercentDecode(s) ==
    Concat([i \in 1..Len(s) |->
        IF s[i] = 37 /\ i + 2 <= Len(s)
        THEN <<HexValue(s[i + 1]) * 16 + HexValue(s[i + 2])>>
        ELSE IF (i > 1 /\ s[i - 1] = 37) \/ (i > 2 /\ s[i - 2] = 37) THEN <<>>
        ELSE <<s[i]>>])

\* every '/' written as %2F
EscapeSlashes(s) ==
    Concat([i \in 1..Len(s) |-> IF s[i] = 47 THEN <<37, 50, 70>> ELSE <<s[i]>>])

HasSlash(s) == \E i \in 1..Len(s) : s[i] = 47

C6_EncodingAsymmetry ==
    (fn.op = "query" /\ fn.done) =>
        LET params == fn.args.params
            n == Cardinality(DOMAIN params)
        IN  IF n = 0 THEN fn.out.canonical = <<>> /\ fn.out.final = <<>>
            ELSE Let(QueryKeys(fn.out.canonical), LAMBDA keys :
                 /\ Len(keys) = n
                 /\ QueryKeys(fn.out.final) = keys
                 /\ StrictlyAscending([i \in 1..n |-> PercentDecode(keys[i])])
                 /\ {PercentDecode(keys[i]) : i \in 1..n} = DOMAIN params
                 /\ \A i \in 1..n :
                      LET vc == QueryValue(fn.out.canonical, keys[i])
                          vf == QueryValue(fn.out.final, keys[i])
                      IN  /\ ~HasSlash(vc)
                          /\ PercentDecode(vc) = params[PercentDecode(keys[i])]
                          /\ IF PercentDecode(keys[i]) = sXAmzCredential
                             THEN /\ EscapeSlashes(vf) = vc
                                  /\ HasSlash(vf) = HasSlash(params[sXAmzCredential])
                             ELSE vf = vc)

\* both builders applied to {"X-Amz-Credential": "AK/d/r", "k/": "/"}
C6_Witness ==
    /\ fn.op = "query" /\ fn.done
    /\ fn.args.params = (sXAmzCredential :> <<65, 75, 47, 100, 47, 114>>) @@ (<<107, 47>> :> <<47>>)

(***************************************************************************)
(* C7  Single time sample: in every emitted URL the date of the            *)
(* X-Amz-Credential scope is the first 8 characters of X-Amz-Date, and     *)
(* the same amzDate and dateStamp are in the string to sign and in the     *)
(* signing-key derivation, even when the clock advances during the call.   *)
(***************************************************************************)
\* the date the signing key was derived from (kDate = HMAC(kSecret, dateStamp))
SigningKeyDate(c) == c.signature.of.key.key.key.key.data

C7_SingleTimeSample ==
    \A p \in Procs : Done(p) =>
        Let(UrlQuery(calls[p]), LAMBDA q :
        Let(Split(QueryValue(q, sXAmzCredential), 47)[2], LAMBDA credentialDate :
        Let(QueryValue(q, sXAmzDate), LAMBDA urlDate :
            /\ credentialDate = SubSeq(urlDate, 1, 8)
            /\ calls[p].signature.of.data.amzDate = urlDate
            /\ Split(calls[p].signature.of.data.credentialScope, 47)[1] = credentialDate
            /\ SigningKeyDate(calls[p]) = credentialDate)))

\* a call that returned on the day after the one it sampled
C7_Witness ==
    \E p \in Procs :
        Done(p) /\ FormatDate(calls[p].later) # FormatDate(calls[p].now)

(***************************************************************************)
(* C8  Wire contract: the query string of every returned URL has exactly   *)
(* the six X-Amz keys, each once, in sorted key order; the signature was   *)
(* computed over the canonical query string of the other five keys.        *)
(***************************************************************************)
C8_WireContract ==
    \A p \in Procs : Done(p) =>
        /\ QueryKeys(UrlQuery(calls[p])) =
             <<sXAmzAlgorithm, sXAmzCredential, sXAmzDate, sXAmzExpires,
               sXAmzSignature, sXAmzSignedHeaders>>
        /\ StrictlyAscending(QueryKeys(UrlQuery(calls[p])))
        /\ QueryKeys(SignedQueryLine(calls[p])) =
             <<sXAmzAlgorithm, sXAmzCredential, sXAmzDate, sXAmzExpires,
               sXAmzSignedHeaders>>

\* a finished call whose URL carries its signature
C8_Witness ==
    /\ Done(1)
    /\ Cardinality(DOMAIN calls[1].metadata) = 2
    /\ QueryValue(UrlQuery(calls[1]), sXAmzSignature) = HexMark

(***************************************************************************)
(* C10 The value written in a metadata entry's canonical header line is    *)
(* the input with leading and trailing white space removed and every       *)
(* internal run of white space replaced by one space; normalising it       *)
(* again leaves it unchanged.                                              *)
(***************************************************************************)
IsWhite(byte) == byte \in {9, 10, 11, 12, 13, 32}

\* v without its leading and trailing white space, each inner run of white
\* space written as one space
Squeezed(v) ==
    Concat([i \in 1..Len(v) |->
        IF ~IsWhite(v[i]) THEN <<v[i]>>
        ELSE IF /\ i > 1 /\ ~IsWhite(v[i - 1])
                /\ \E j \in (i + 1)..Len(v) : ~IsWhite(v[j])
        THEN <<32>>
        ELSE <<>>])

\* the value of the x-amz-meta-l line of a canonical header block
MetaLineValue(block) ==
    Let(Split(block, 10), LAMBDA lines :
        LineValue(lines[CHOOSE i \in 1..Len(lines) :
                            LineName(lines[i]) = sMetaPrefix \o <<108>>]))

C10_ValueNormalised ==
    (fn.op = "value" /\ fn.done) =>
        Let(MetaLineValue(fn.out), LAMBDA w :
            /\ w = Squeezed(fn.args.value)
            /\ (w # <<>> => ~IsWhite(w[1]) /\ ~IsWhite(w[Len(w)]))
            /\ \A i \in 1..(Len(w) - 1) : ~(IsWhite(w[i]) /\ IsWhite(w[i + 1]))
            /\ TrimSpace(HeaderValue(w)) = w)

\* the value " x \tx " has been normalised
C10_Witness ==
    /\ fn.op = "value" /\ fn.done
    /\ fn.args.value = <<32, 120, 32, 9, 120, 32>>

(***************************************************************************)
(* C9  Round trip: a verifier that percent-decodes the query parameters of *)
(* a generated URL, drops X-Amz-Signature, re-encodes the rest in fully    *)
(* escaped canonical form, takes host and the normalized x-amz-meta-*      *)
(* headers named in X-Amz-SignedHeaders and recomputes canonical request,  *)
(* string to sign and HMAC with the key derived from the same secret,      *)
(* date, region and service obtains the X-Amz-Signature of the URL.        *)
(***************************************************************************)
\* the headers of the upload for a metadata mapping: one x-amz-meta-<name>
\* header per entry, its value normalized; the values of a repeated name are
\* joined with ','
UploadHeaderValue(metadata, name) ==
    Let(SortStrings(SetToSeq({k \in DOMAIN metadata :
                                sMetaPrefix \o NormalizeName(k) = name})), LAMBDA ks :
        Join([i \in 1..Len(ks) |-> Squeezed(metadata[ks[i]])], <<44>>))

\* the decoded parameters of a query string, X-Amz-Signature dropped
VerifierParams(q) ==
    Let(QueryKeys(q), LAMBDA keys :
        [k \in {PercentDecode(keys[i]) : i \in 1..Len(keys)} \ {sXAmzSignature} |->
            PercentDecode(QueryValue(q,
                keys[CHOOSE i \in 1..Len(keys) : PercentDecode(keys[i]) = k]))])

\* the verifier's canonical query string: keys sorted, every byte escaped
VerifierQuery(params) ==
    Let(SortStrings(SetToSeq(DOMAIN params)), LAMBDA keys :
        Join([i \in 1..Len(keys) |->
                RefEncode(keys[i], TRUE) \o cEq \o RefEncode(params[keys[i]], TRUE)],
             cAmp))

\* the signature the verifier computes for the URL of call c, uploaded with
\* the headers of c's metadata, the secret key being secretKey
VerifierSignature(c, secretKey) ==
    Let(Split(c.url, 63), LAMBDA halves :
    Let(VerifierParams(halves[2]), LAMBDA params :
    Let(SubSeq(halves[1], Len(sHttps) + 1, Len(halves[1])), LAMBDA hostAndPath :
    Let(Split(hostAndPath, 47)[1], LAMBDA host :
    Let(Split(params[sXAmzCredential], 47), LAMBDA credential :
    Let(Split(params[sXAmzSignedHeaders], 59), LAMBDA names :
        LET path == SubSeq(hostAndPath, Len(host) + 1, Len(hostAndPath))
            headerBlock ==
                Concat([i \in 1..Len(names) |->
                    names[i] \o cColon
                      \o (IF names[i] = sHost THEN host
                          ELSE UploadHeaderValue(c.metadata, names[i]))
                      \o cNL])
            request == Join(<<sPUT, path, VerifierQuery(params), headerBlock,
                              params[sXAmzSignedHeaders], sUnsignedPayload>>, cNL)
            toSign == [algorithm |-> params[sXAmzAlgorithm],
                       amzDate |-> params[sXAmzDate],
                       credentialScope |-> Join(<<credential[2], credential[3],
                                                  credential[4], sAws4Request>>, cSlash),
                       hashedRequest |-> hash(request)]
        IN  hmacSHA256Hex(
                getSignatureKey(secretKey, credential[2], credential[3], credential[4]),
                toSign)))))))

C9_RoundTrip ==
    \A p \in Procs : Done(p) =>
        VerifierSignature(calls[p], signer.secretKey) = calls[p].signature

\* the round trip of the calls whose metadata keys are ASCII and normalize
\* to distinct header names
C9_RoundTripPlainKeys ==
    \A p \in Procs :
        ( /\ Done(p)
          /\ \A k \in DOMAIN calls[p].metadata :
               /\ \A i \in 1..Len(k) : k[i] < 128
               /\ \A l \in DOMAIN calls[p].metadata :
                    NormalizeName(k) = NormalizeName(l) => k = l )
        => VerifierSignature(calls[p], signer.secretKey) = calls[p].signature

(***************************************************************************)
(* C11 Content-Type is never signed: two calls that differ only in the     *)
(* contentType argument (same configuration, bucket, key, metadata,        *)
(* expiration and sampled instant) return byte-identical URLs, and no      *)
(* content-type header name is in X-Amz-SignedHeaders or among the query   *)
(* parameters.                                                             *)
(***************************************************************************)
\* the header name "content-type"
sContentType == <<99, 111, 110, 116, 101, 110, 116, 45, 116, 121, 112, 101>>

\* calls p and q have the same inputs and instant but for the content type
DifferOnlyInContentType(p, q) ==
    /\ Done(p) /\ Done(q)
    /\ calls[p].contentType # calls[q].contentType
    /\ calls[p].bucket = calls[q].bucket
    /\ calls[p].key = calls[q].key
    /\ calls[p].metadata = calls[q].metadata
    /\ calls[p].expiration = calls[q].expiration
    /\ calls[p].now = calls[q].now

\* no content-type name among the signed headers or the query keys of call p
NoContentTypeName(p) ==
    /\ \A name \in Range(Split(calls[p].queryParams[sXAmzSignedHeaders], 59)) :
         NormalizeName(name) # sContentType
    /\ \A k \in Range(QueryKeys(UrlQuery(calls[p]))) :
         NormalizeName(PercentDecode(k)) # sContentType

C11_ContentTypeNeverSigned ==
    /\ \A p \in Procs, q \in Procs :
         DifferOnlyInContentType(p, q) => calls[p].url = calls[q].url
                                            /\ calls[p].signature = calls[q].signature
    /\ \A p \in Procs : Done(p) => NoContentTypeName(p)

\* the same for the calls whose metadata keys normalize to distinct names
C11_ContentTypeNeverSignedDistinctNames ==
    /\ \A p \in Procs, q \in Procs :
         ( /\ DifferOnlyInContentType(p, q)
           /\ \A k, l \in DOMAIN calls[p].metadata :
                NormalizeName(k) = NormalizeName(l) => k = l )
         => calls[p].url = calls[q].url /\ calls[p].signature = calls[q].signature
    /\ \A p \in Procs : Done(p) => NoContentTypeName(p)

(***************************************************************************)
(* C12 Configuration errors are fatal before any signing: if the access    *)
(* key, secret key, region or bucket name is missing or empty, or the      *)
(* expiration setting does not parse as an integer, LoadConfig fails and   *)
(* main exits before the S3 service and the signer are constructed and     *)
(* before any request is accepted; hence every signing call runs with      *)
(* non-empty access key, secret key, region and bucket.                    *)
(***************************************************************************)
\* the text is an integer: an optional sign, then decimal digits
IsInteger(s) ==
    LET digits == IF s # <<>> /\ s[1] \in {43, 45} THEN Tail(s) ELSE s
    IN  digits # <<>> /\ \A i \in 1..Len(digits) : digits[i] \in 48..57

\* the expiration setting is given and is no integer
BadExpiration(env) == env.expiration # <<>> /\ ~IsInteger(env.expiration)

\* main has left LoadConfig's failure behind it: it went on past line 23
WentOn ==
    \/ main.phase \in {"configured", "constructed", "serving", "stopped"}
    \/ signer # NoSigner
    \/ main.s3Service # NoS3Service
    \/ \E p \in Procs : reqs[p].pc # "idle" \/ calls[p].pc # "idle"

\* every signing call runs with non-empty access key, secret, region, bucket
SigningCallsConfigured ==
    \A p \in Procs : calls[p].pc # "idle" =>
        /\ signer.accessKey # <<>> /\ signer.secretKey # <<>>
        /\ signer.region # <<>> /\ calls[p].bucket # <<>>

C12_ConfigErrorsFatal ==
    /\ ( \/ main.env.accessKey = <<>> \/ main.env.secretKey = <<>>
         \/ main.env.region = <<>> \/ main.env.bucket = <<>>
         \/ BadExpiration(main.env) )
       => ~WentOn
    /\ SigningCallsConfigured

\* C12 as amended: a missing or empty region is no error, LoadConfig takes
\* "us-east-1" for it; the other settings are as the claim says
C12_ConfigErrorsFatalRegionDefault ==
    /\ ( \/ main.env.accessKey = <<>> \/ main.env.secretKey = <<>>
         \/ main.env.bucket = <<>> \/ BadExpiration(main.env) )
       => ~WentOn
    /\ (main.phase \in {"configured", "constructed", "serving", "stopped"}
          => main.cfg.AWSRegion = IF main.env.region = <<>> THEN sDefaultRegion
                                  ELSE main.env.region)
    /\ SigningCallsConfigured

\* main has exited on an environment without a bucket name
C12_Witness == main.phase = "exited" /\ main.env.bucket = <<>>

(***************************************************************************)
(* C13 Signing has no runtime error: GeneratePresignedPutURL returns a nil *)
(* error for every input (empty or nil metadata, zero expiration), so      *)
(* S3Service.GeneratePresignedPutURL never returns an error and the upload *)
(* endpoint never answers 500 for a request whose body decodes with a      *)
(* non-empty filename.                                                     *)
(***************************************************************************)
\* the request of goroutine p has been answered
Answered(p) == reqs[p].pc = "done"

\* the statuses of the responses written for the request of goroutine p
Statuses(p) == [i \in 1..Len(reqs[p].responses) |-> reqs[p].responses[i].status]

C13_SigningNeverFails ==
    \A p \in Procs :
        /\ Done(p) => calls[p].err = "nil" /\ calls[p].url # <<>>
        /\ ( /\ Answered(p) /\ reqs[p].kind = "upload"
             /\ reqs[p].body.decodes /\ reqs[p].body.filename # <<>> )
           => /\ Statuses(p) = <<200>>
              /\ reqs[p].responses[1].payload.url = calls[p].url

\* an upload without metadata, signed with a zero expiration, was answered
C13_Witness ==
    \E p \in Procs :
        /\ Answered(p) /\ reqs[p].kind = "upload" /\ Done(p)
        /\ calls[p].expiration = 0 /\ DOMAIN calls[p].metadata = {}

(***************************************************************************)
(* C14 Concurrent signing is safe without locks: no call writes the        *)
(* signer's accessKey, secretKey, region or service or any other state     *)
(* shared between calls, and each of the interleaved calls returns the URL *)
(* it would return when run alone with the same inputs and sampled         *)
(* instant.                                                                *)
(***************************************************************************)
\* what call c returns is made of c's own inputs, c's own instant and the
\* configuration s alone: host, path, credential, dates, expiry, the signed
\* header names and values, the signing key
OwnResult(c, s) ==
    Let(UrlQuery(c), LAMBDA q :
    Let(HeaderLines(c), LAMBDA lines :
        /\ c.url = sHttps \o c.bucket \o sS3Dot \o s.region \o sAmazonaws
                     \o cSlash \o c.key \o cQuestion \o q
        /\ RequestLines(c)[2] = cSlash \o c.key
        /\ QueryValue(q, sXAmzCredential) =
             Join(<<s.accessKey, FormatDate(c.now), s.region, s.service,
                    sAws4Request>>, cSlash)
        /\ QueryValue(q, sXAmzDate) = FormatAmzDate(c.now)
        /\ QueryValue(q, sXAmzExpires) = Decimal(c.expiration \div 1000)
        /\ QueryValue(q, sXAmzSignature) = HexMark
        /\ c.signature.of.key = getSignatureKey(s.secretKey, FormatDate(c.now),
                                                s.region, s.service)
        /\ c.signature.of.data.amzDate = FormatAmzDate(c.now)
        /\ {LineName(lines[i]) : i \in 1..Len(lines)} =
             {sHost} \cup {sMetaPrefix \o NormalizeName(k) : k \in DOMAIN c.metadata}
        /\ \A i \in 1..Len(lines) :
             \/ lines[i] = sHost \o cColon \o c.bucket \o sS3Dot \o s.region \o sAmazonaws
             \/ \E k \in DOMAIN c.metadata :
                  lines[i] = sMetaPrefix \o NormalizeName(k) \o cColon
                               \o Squeezed(c.metadata[k])))

C14_NoInterference ==
    [][ /\ signer' = signer
        /\ \A p \in Procs :
             /\ calls'[p] # calls[p] => \A q \in Procs \ {p} : calls'[q] = calls[q]
             /\ Done(p)' => OwnResult(calls'[p], signer) ]_vars

\* two calls with different metadata, both entered before a tick of the
\* clock and both returned after it
C14_Witness ==
    /\ Done(1) /\ Done(2)
    /\ calls[1].metadata # calls[2].metadata
    /\ calls[1].now = calls[2].now
    /\ calls[1].later > calls[1].now /\ calls[2].later > calls[2].now

(***************************************************************************)
(* C15 URL shape: the returned URL is "https://" + bucket + ".s3." +       *)
(* region + ".amazonaws.com" + "/" + key + "?" + the final query string,   *)
(* the key exactly as supplied and the same path that was signed as the    *)
(* canonical URI; X-Amz-Expires is the expiration in whole seconds in      *)
(* decimal (180 s gives 180).                                              *)
(***************************************************************************)
\* a duration of ms milliseconds in whole seconds, the fraction dropped
WholeSeconds(ms) == IF ms >= 0 THEN ms \div 1000 ELSE 0 - ((0 - ms) \div 1000)

\* n in decimal
DecimalText(n) == IF n < 0 THEN <<45>> \o Decimal(0 - n) ELSE Decimal(n)

\* the URL of call c up to and including its '?'
UrlHead(c) ==
    sHttps \o c.bucket \o sS3Dot \o signer.region \o sAmazonaws
        \o cSlash \o c.key \o cQuestion

C15_UrlShape ==
    \A p \in Procs : Done(p) =>
        Let(UrlHead(calls[p]), LAMBDA head :
            /\ Len(calls[p].url) > Len(head)
            /\ SubSeq(calls[p].url, 1, Len(head)) = head
            /\ Let(SubSeq(calls[p].url, Len(head) + 1, Len(calls[p].url)), LAMBDA q :
                 /\ QueryKeys(q) = <<sXAmzAlgorithm, sXAmzCredential, sXAmzDate,
                                     sXAmzExpires, sXAmzSignature, sXAmzSignedHeaders>>
                 /\ QueryValue(q, sXAmzExpires) =
                      DecimalText(WholeSeconds(calls[p].expiration))
                 /\ (calls[p].expiration = 180 * 1000
                       => QueryValue(q, sXAmzExpires) = <<49, 56, 48>>))
            /\ RequestLines(calls[p])[2] = cSlash \o calls[p].key)

\* a finished call for the key "a b%/é" with an expiration of 1.5 s
C15_Witness ==
    /\ Done(1)
    /\ calls[1].key = <<97, 32, 98, 37, 47, 195, 169>>
    /\ calls[1].expiration = 1500

(***************************************************************************)
(* C16 Request validation precedes any service call: for both POST         *)
(* handlers, a request whose body does not decode as JSON or whose         *)
(* filename is empty gets exactly one response, of status 400, and the S3  *)
(* service (listing or signing) is never invoked for it; every handled     *)
(* request gets exactly one response, of status 200, 400 or 500.           *)
(***************************************************************************)
\* the body of the request of goroutine p is not JSON or has no filename
Malformed(p) == ~reqs[p].body.decodes \/ reqs[p].body.filename = <<>>

C16_ValidationFirst ==
    \A p \in Procs :
        /\ (reqs[p].pc # "idle" /\ Malformed(p))
             => /\ reqs[p].serviceCalls = 0
                /\ calls[p].pc = "idle"
                /\ reqs[p].objects = <<>> /\ reqs[p].fullKey = <<>>
        /\ (Answered(p) /\ Malformed(p)) => Statuses(p) = <<400>>
        /\ Answered(p) => /\ Len(reqs[p].responses) = 1
                          /\ Statuses(p)[1] \in {200, 400, 500}
        /\ ~Answered(p) => reqs[p].responses = <<>>

\* a search whose body decodes without a filename has been answered
C16_Witness ==
    \E p \in Procs :
        /\ Answered(p) /\ reqs[p].kind = "search"
        /\ reqs[p].body.decodes /\ reqs[p].body.filename = <<>>

(***************************************************************************)
(* C17 SearchObjectByFilename searches for a file by name: when the        *)
(* listing succeeds it returns (true, key) only if key is an object listed *)
(* under the search prefix ("inputs/" when the company prefix is empty,    *)
(* otherwise companyPrefix + "/") whose file name, the part of the key     *)
(* after its last '/', equals the requested filename, key being the first  *)
(* such object in listing order, and (false, "") when no listed object has *)
(* that name; when the listing fails it returns (false, "", error).        *)
(***************************************************************************)
\* the part of a key after its last '/'
FileName(key) == Let(Split(key, 47), LAMBDA parts : parts[Len(parts)])

\* the positions, in the bucket's listing, of the objects under the search
\* prefix whose file name is filename
NamedObjects(objects, companyPrefix, filename) ==
    {i \in 1..Len(objects) :
        /\ HasPrefix(objects[i], IF companyPrefix = <<>> THEN sInputs
                                 ELSE companyPrefix \o cSlash)
        /\ FileName(objects[i]) = filename}

C17_SearchByName ==
    \A p \in Procs :
        (Answered(p) /\ reqs[p].kind = "search" /\ reqs[p].serviceCalls = 1) =>
            LET r == reqs[p].result
                named == NamedObjects(reqs[p].objects, main.s3Service.companyPrefix,
                                      reqs[p].body.filename)
            IN  IF r.err # "nil" THEN ~r.exists /\ r.key = <<>>
                ELSE IF named = {} THEN ~r.exists /\ r.key = <<>>
                ELSE /\ r.exists
                     /\ r.key = reqs[p].objects[CHOOSE i \in named :
                                                    \A j \in named : i <= j]

\* the same for the searches in which every listed key that ends with the
\* filename has it as its file name
C17_SearchByNameWholeNames ==
    \A p \in Procs :
        ( /\ Answered(p) /\ reqs[p].kind = "search" /\ reqs[p].serviceCalls = 1
          /\ \A i \in 1..Len(reqs[p].objects) :
               EndsWith(reqs[p].objects[i], reqs[p].body.filename)
                 => FileName(reqs[p].objects[i]) = reqs[p].body.filename ) =>
            LET r == reqs[p].result
                named == NamedObjects(reqs[p].objects, main.s3Service.companyPrefix,
                                      reqs[p].body.filename)
            IN  IF r.err # "nil" THEN ~r.exists /\ r.key = <<>>
                ELSE IF named = {} THEN ~r.exists /\ r.key = <<>>
                ELSE /\ r.exists
                     /\ r.key = reqs[p].objects[CHOOSE i \in named :
                                                    \A j \in named : i <= j]

(***************************************************************************)
(* C18 Every presigned URL served by the running service carries a usable  *)
(* lifetime: for every configuration accepted by LoadConfig, the           *)
(* X-Amz-Expires value of every emitted URL equals                         *)
(* 60 x PRESIGNED_URL_EXPIRATION_MINUTES and is at least 1.                *)
(***************************************************************************)
\* the X-Amz-Expires text of the URL of goroutine p's call
UrlExpires(p) == QueryValue(UrlQuery(calls[p]), sXAmzExpires)

C18_UsableLifetime ==
    \A p \in Procs :
        (Done(p) /\ main.phase \in {"serving", "stopped"}) =>
            /\ UrlExpires(p) = DecimalText(60 * main.cfg.PresignedURLExpirationMinutes)
            /\ 60 * main.cfg.PresignedURLExpirationMinutes >= 1
            /\ UrlExpires(p)[1] \in 49..57

\* the equality alone, whatever the sign of the setting
C18_ExpiresIsSixtyTimesMinutes ==
    \A p \in Procs :
        (Done(p) /\ main.phase \in {"serving", "stopped"}) =>
            UrlExpires(p) = DecimalText(60 * main.cfg.PresignedURLExpirationMinutes)

====
